---- MODULE Spec2Model ----
(***************************************************************************)
(* Model of bot.py: the filename builder file_basename and the handler     *)
(* backup_message, which archives one inbound update into the messages and *)
(* media tables and the media backup directory.                            *)
(*                                                                         *)
(* Python str values are sequences of one-character strings, so that       *)
(* formatting, lowercasing, splitting and stripping are computed.  An      *)
(* optional value (None or a str) is a record [present, s].                *)
(***************************************************************************)
EXTENDS Integers, Sequences, FiniteSets, TLC

VARIABLES
    pc,         \* position of backup_message: "idle" between two updates
    cur,        \* the update being handled
    n,          \* number of updates taken from the platform so far
    pending,    \* rows added to the open session and not yet committed
    messages,   \* durable rows of table "messages"
    media,      \* durable rows of table "media"
    disk,       \* files written under MEDIA_BACKUP_DIR: [path, token]
    tg_file,    \* local tg_file of the run
    media_type, \* local media_type of the run
    fname,      \* local fname of the run
    failedAt,   \* step whose exception is propagating or was logged, or "none"
    hist,       \* per finished update: [result, failedAt, attach]
    steps,      \* steps the current run has performed so far, in order
    calls,      \* per run: number of get_file and download_to_drive calls
    fin,        \* arguments of a direct call of file_basename
    fout        \* its result

vars == <<pc, cur, n, pending, messages, media, disk, tg_file, media_type,
          fname, failedAt, hist, steps, calls, fin, fout>>

handlerVars == <<pc, cur, n, pending, messages, media, disk, tg_file,
                 media_type, fname, failedAt, hist, steps, calls>>

(***************************************************************************)
(* Bounds.                                                                 *)
(***************************************************************************)
MaxEvents == 2

MaxLen == 3

(***************************************************************************)
(* Python values.                                                          *)
(***************************************************************************)
None == [present |-> FALSE, s |-> <<>>]

Some(str) == [present |-> TRUE, s |-> str]

\* truthiness of an optional str: None and "" are falsy
Truthy(o) == o.present /\ o.s # <<>>

Range(seq) == {seq[i] : i \in 1..Len(seq)}

Uppers == <<"A", "B", "G", "J", "P">>

Lowers == <<"a", "b", "g", "j", "p">>

\* str.lower() on one character
LowerChar(c) ==
    IF \E i \in 1..Len(Uppers) : Uppers[i] = c
    THEN Lowers[CHOOSE i \in 1..Len(Uppers) : Uppers[i] = c]
    ELSE c

\* str.lower()
Lower(str) == [i \in 1..Len(str) |-> LowerChar(str[i])]

\* "." in str
HasDot(str) == \E i \in 1..Len(str) : str[i] = "."

\* str.rsplit(".", 1)[-1]: scan from the right for the first "."
RECURSIVE RSplitLastFrom(_, _)
RSplitLastFrom(str, k) ==
    IF k = 0 THEN str
    ELSE IF str[k] = "." THEN SubSeq(str, k + 1, Len(str))
    ELSE RSplitLastFrom(str, k - 1)

RSplitLast(str) == RSplitLastFrom(str, Len(str))

\* str.lstrip(".") and str.rstrip(".")
RECURSIVE LStripDots(_)
LStripDots(str) ==
    IF str # <<>> /\ Head(str) = "." THEN LStripDots(Tail(str)) ELSE str

RECURSIVE RStripDots(_)
RStripDots(str) ==
    IF str # <<>> /\ str[Len(str)] = "."
    THEN RStripDots(SubSeq(str, 1, Len(str) - 1))
    ELSE str

\* str.strip("."): both ends
StripDots(str) == RStripDots(LStripDots(str))

Digits == <<"0", "1", "2", "3", "4", "5", "6", "7", "8", "9">>

\* decimal rendering of an int inside an f-string
RECURSIVE NatStr(_)
NatStr(k) ==
    IF k < 10 THEN <<Digits[k + 1]>>
    ELSE NatStr(k \div 10) \o <<Digits[(k % 10) + 1]>>

IntStr(k) == IF k < 0 THEN <<"-">> \o NatStr(0 - k) ELSE NatStr(k)

(***************************************************************************)
(* file_basename (bot.py 76-88).                                           *)
(***************************************************************************)
\* lines 82-84: extension inferred from Telegram's file_path
PathExt(file) ==
    IF Truthy(file.file_path) /\ HasDot(file.file_path.s)
    THEN Some(Lower(RSplitLast(file.file_path.s)))
    ELSE None

\* variant: the explicit extension is preferred to the one of file_path
FallbackFirst(file, explicit_ext) ==
    IF Truthy(explicit_ext)
    THEN Some(Lower(StripDots(explicit_ext.s)))
    ELSE PathExt(file)

\* lines 85-86: fall back to the explicit extension when none was inferred
ResolvedExt(file, explicit_ext) ==
    IF ~Truthy(PathExt(file)) /\ Truthy(explicit_ext)
    THEN Some(Lower(StripDots(explicit_ext.s)))
    ELSE PathExt(file)

\* line 87
Suffix(ext) == IF Truthy(ext) THEN <<".">> \o ext.s ELSE <<>>

\* variant: no "_" between message_id and the token
JoinWithoutSeparator(chat_id, message_id, token, suffix) ==
    IntStr(chat_id) \o <<"_">> \o IntStr(message_id) \o token \o suffix

\* line 88
JoinName(chat_id, message_id, token, suffix) ==
    IntStr(chat_id) \o <<"_">> \o IntStr(message_id) \o <<"_">> \o token \o suffix

file_basename(chat_id, message_id, file, explicit_ext) ==
    JoinName(chat_id, message_id, file.file_unique_id,
             Suffix(ResolvedExt(file, explicit_ext)))

(***************************************************************************)
(* The data the platform delivers.                                         *)
(***************************************************************************)
\* the attachment fields of a message, in the order lines 135-156 probe them
Kinds == <<"photo", "video", "document", "voice", "audio", "animation", "sticker">>

\* an attachment field: the file_unique_id of each descriptor it holds
\* (msg.photo is the list of photo sizes, the other fields hold one or none)
Att(photo, video, document, voice, audio, animation, sticker) ==
    [photo |-> photo, video |-> video, document |-> document, voice |-> voice,
     audio |-> audio, animation |-> animation, sticker |-> sticker]

NoAtt == Att(<<>>, <<>>, <<>>, <<>>, <<>>, <<>>, <<>>)

TokA == <<"A">>

Tok2A == <<"2", "A">>

TokB == <<"-", "_", "B">>

Attachments ==
    { NoAtt,
      Att(<<TokA, Tok2A>>, <<>>, <<TokB>>, <<>>, <<>>, <<>>, <<>>),
      Att(<<Tok2A, TokA>>, <<>>, <<>>, <<>>, <<>>, <<>>, <<>>),
      Att(<<>>, <<TokA>>, <<>>, <<>>, <<>>, <<>>, <<Tok2A>>),
      Att(<<>>, <<>>, <<TokB>>, <<TokA>>, <<>>, <<>>, <<>>),
      Att(<<>>, <<>>, <<>>, <<TokA>>, <<Tok2A>>, <<>>, <<>>),
      Att(<<>>, <<>>, <<>>, <<>>, <<Tok2A>>, <<TokA>>, <<>>),
      Att(<<>>, <<>>, <<>>, <<>>, <<>>, <<TokA>>, <<TokB>>),
      Att(<<>>, <<>>, <<>>, <<>>, <<>>, <<>>, <<Tok2A>>) }

\* chat.id, message_id, text and caption of the messages the platform sends
Msg(chat_id, message_id, text, caption) ==
    [chat_id |-> chat_id, message_id |-> message_id, text |-> text,
     caption |-> caption]

Msgs ==
    { Msg(0 - 7, 1, Some(<<"h", "i">>), None),
      Msg(7, 1, None, Some(<<"c">>)),
      Msg(7, 12, None, None) }

\* file_path values the File resolved for a descriptor may carry
RemotePaths(token) ==
    IF token = <<"A">> THEN {None, Some(<<"p", "/", "f", ".", "J", "P", "G">>)}
    ELSE IF token = <<"2", "A">> THEN {None}
    ELSE {Some(<<"p", "/", "f", ".", "J", "P", "G">>)}

Update(has_msg, command, msg, att) ==
    [has_msg |-> has_msg, command |-> command, msg |-> msg, att |-> att]

NoMsg == Msg(0, 0, None, None)

NoUpdate == Update(FALSE, FALSE, NoMsg, NoAtt)

\* a command: stopped by the filter of line 186
CommandUpdate == Update(TRUE, TRUE, Msg(7, 1, Some(<<"/", "a">>), None), NoAtt)

Updates ==
    {Update(TRUE, FALSE, m, a) : m \in Msgs, a \in Attachments}
        \cup {NoUpdate, CommandUpdate}

NoFile == [present |-> FALSE, file_unique_id |-> <<>>, file_path |-> None]

File(token, path) ==
    [present |-> TRUE, file_unique_id |-> token, file_path |-> path]

HasAttachment(u) == \E i \in 1..Len(Kinds) : u.att[Kinds[i]] # <<>>

(***************************************************************************)
(* Configuration (bot.py 22, 42).                                          *)
(***************************************************************************)
MEDIA_BACKUP_DIR == <<"d">>

\* variant: a session that commits each flush
autocommitOn == TRUE

\* sessionmaker(..., autocommit=False, ...)
autocommit == FALSE

\* SessionLocal(): a new session, nothing added to it
SessionLocal == <<>>

\* variant: the session keeps what was staged when the block is left
ExitWithoutRollback(rows) == rows

\* leaving "with SessionLocal() as db": close() rolls back what is uncommitted
SessionExit(rows) == <<>>

(***************************************************************************)
(* backup_message (bot.py 91-176), one action per step.                    *)
(***************************************************************************)
NoCalls == [get_file |-> 0, download |-> 0]

\* line 108: msg.text or msg.caption
TextOf(msg) == IF Truthy(msg.text) THEN msg.text ELSE msg.caption

\* lines 116-127: the Message row; its id is allocated by the flush of line 129
MessageRow(msg) ==
    [tbl |-> "messages", id |-> Cardinality(messages) + 1, ev |-> n,
     chat_id |-> msg.chat_id, message_id |-> msg.message_id,
     text |-> TextOf(msg)]

\* variant: the document branch is probed before the photo branch
SelectDocumentFirst(att) ==
    IF att.document # <<>> THEN "document"
    ELSE IF att.photo # <<>> THEN "photo"
    ELSE IF att.video # <<>> THEN "video"
    ELSE IF att.voice # <<>> THEN "voice"
    ELSE IF att.audio # <<>> THEN "audio"
    ELSE IF att.animation # <<>> THEN "animation"
    ELSE IF att.sticker # <<>> THEN "sticker"
    ELSE "none"

\* lines 135-156: the if/elif chain; "none" when no branch is taken
SelectKind(att) ==
    IF att.photo # <<>> THEN "photo"
    ELSE IF att.video # <<>> THEN "video"
    ELSE IF att.document # <<>> THEN "document"
    ELSE IF att.voice # <<>> THEN "voice"
    ELSE IF att.audio # <<>> THEN "audio"
    ELSE IF att.animation # <<>> THEN "animation"
    ELSE IF att.sticker # <<>> THEN "sticker"
    ELSE "none"

\* the descriptor get_file() is called on: msg.photo[-1], or the field itself
Descriptor(att, kind) ==
    IF kind = "photo" THEN att.photo[Len(att.photo)] ELSE att[kind][1]

\* lines 161, 169: str(MEDIA_BACKUP_DIR / fname)
DestPath(name) == MEDIA_BACKUP_DIR \o <<"/">> \o name

\* variant: download_to_drive without custom_path, named after the file
DownloadToRemoteName(name, file) == MEDIA_BACKUP_DIR \o <<"/">> \o file.file_unique_id

\* line 162: the path download_to_drive(custom_path=str(dest_path)) writes
DownloadTarget(name, file) == DestPath(name)

\* lines 164-170
MediaRow(msg) ==
    [tbl |-> "media", id |-> 0, ev |-> n, message_id |-> msg.message_id,
     chat_id |-> msg.chat_id, media_type |-> media_type, file_name |-> fname,
     file_path |-> DestPath(fname)]

\* variant: the Media row is built and never added to the session
MediaNotAdded(rows, row) == rows

\* line 171: db.add(db_media)
StagedWithMedia(rows, row) == Append(rows, row)

\* variant: the commit is missing
CommitNothing(store, tbl) == store

\* line 173: the rows of one table that db.commit() makes durable, a media
\* row getting its id from the flush the commit performs
CommitTable(store, tbl) ==
    store \cup
        { IF r.id = 0 THEN [r EXCEPT !.id = Cardinality(store) + 1] ELSE r :
            r \in {q \in Range(pending) : q.tbl = tbl} }

\* variant: an except clause for the errors of the store only
CatchesStoreErrorsOnly(step) == step \in {"stage", "commit", "close"}

\* line 175: "except Exception" catches the exception of every step
Caught(step) == TRUE

\* an exception leaves the with block (the session exits) towards line 175
Raise(step) ==
    /\ failedAt' = step
    /\ pending' = SessionExit(pending)
    /\ pc' = "except"

\* the handler returns: the locals of the run are gone
Return(result) ==
    /\ pc' = "idle"
    /\ hist' = Append(hist, [result |-> result,
                             failedAt |-> IF result = "committed" THEN "none"
                                          ELSE failedAt,
                             attach |-> HasAttachment(cur)])
    /\ cur' = NoUpdate
    /\ tg_file' = NoFile
    /\ media_type' = "none"
    /\ fname' = <<>>
    /\ failedAt' = "none"
    /\ steps' = <<>>
    /\ calls' = NoCalls

\* line 186: filters.ALL & ~filters.COMMAND keeps a command from the handler
DropCommand ==
    /\ pc = "idle"
    /\ n < MaxEvents
    /\ n' = n + 1
    /\ hist' = Append(hist, [result |-> "filtered", failedAt |-> "none",
                             attach |-> FALSE])
    /\ UNCHANGED <<pc, cur, pending, messages, media, disk, tg_file,
                   media_type, fname, failedAt, steps, calls, fin, fout>>

\* the platform calls backup_message(update, context)
Deliver ==
    /\ pc = "idle"
    /\ n < MaxEvents
    /\ \E u \in Updates :
        /\ ~u.command
        /\ cur' = u
    /\ n' = n + 1
    /\ pc' = "validate"
    /\ UNCHANGED <<pending, messages, media, disk, tg_file, media_type, fname,
                   failedAt, hist, steps, calls, fin, fout>>

\* lines 97-99
ReturnNoMessage ==
    /\ pc = "validate"
    /\ ~cur.has_msg
    /\ Return("ignored")
    /\ UNCHANGED <<n, pending, messages, media, disk, fin, fout>>

\* lines 101-113
ExtractMetadata ==
    /\ pc = "validate"
    /\ cur.has_msg
    /\ \E ok \in BOOLEAN :
        IF ok
        THEN /\ pc' = "stage"
             /\ UNCHANGED failedAt
        ELSE /\ pc' = "except"
             /\ failedAt' = "extract"
    /\ UNCHANGED <<cur, n, pending, messages, media, disk, tg_file, media_type,
                   fname, hist, steps, calls, fin, fout>>

\* lines 115-129: open the session, add the Message row, flush
StageMessage ==
    /\ pc = "stage"
    /\ \E ok \in BOOLEAN :
        IF ok
        THEN /\ IF autocommit
                THEN /\ messages' = messages \cup {MessageRow(cur.msg)}
                     /\ pending' = SessionLocal
                ELSE /\ pending' = Append(SessionLocal, MessageRow(cur.msg))
                     /\ UNCHANGED messages
             /\ pc' = "detect"
             /\ steps' = Append(steps, "stage")
             /\ UNCHANGED failedAt
        ELSE /\ Raise("stage")
             /\ UNCHANGED <<messages, steps>>
    /\ UNCHANGED <<cur, n, media, disk, tg_file, media_type, fname, hist,
                   calls, fin, fout>>

\* lines 135-158 when no branch is taken: tg_file stays None
SkipNoAttachment ==
    /\ pc = "detect"
    /\ SelectKind(cur.att) = "none"
    /\ pc' = "commit"
    /\ UNCHANGED <<cur, n, pending, messages, media, disk, tg_file, media_type,
                   fname, failedAt, hist, steps, calls, fin, fout>>

\* lines 135-156: await <descriptor>.get_file() in the branch taken
ResolveFile ==
    /\ pc = "detect"
    /\ SelectKind(cur.att) # "none"
    /\ calls' = [calls EXCEPT !.get_file = @ + 1]
    /\ \E ok \in BOOLEAN,
          path \in RemotePaths(Descriptor(cur.att, SelectKind(cur.att))) :
        IF ok
        THEN /\ tg_file' = File(Descriptor(cur.att, SelectKind(cur.att)), path)
             /\ media_type' = SelectKind(cur.att)
             /\ pc' = "download"
             /\ steps' = Append(steps, "get_file")
             /\ UNCHANGED <<pending, failedAt>>
        ELSE /\ Raise("get_file")
             /\ UNCHANGED <<tg_file, media_type, steps>>
    /\ UNCHANGED <<cur, n, messages, media, disk, fname, hist, fin, fout>>

\* lines 158-162: build the name, await tg_file.download_to_drive(...)
Download ==
    /\ pc = "download"
    /\ tg_file.present /\ media_type # "none"
    /\ calls' = [calls EXCEPT !.download = @ + 1]
    /\ LET name == file_basename(cur.msg.chat_id, cur.msg.message_id,
                                 tg_file, None)
           written == disk \cup {[path |-> DownloadTarget(name, tg_file),
                                  token |-> tg_file.file_unique_id]}
       IN  /\ fname' = name
           /\ \E ok \in BOOLEAN, wrote \in BOOLEAN :
                IF ok
                THEN /\ disk' = written
                     /\ pc' = "stage_media"
                     /\ steps' = Append(steps, "download")
                     /\ UNCHANGED <<pending, failedAt>>
                ELSE \* a failed transfer may leave a file behind
                     /\ disk' = IF wrote THEN written ELSE disk
                     /\ Raise("download")
                     /\ UNCHANGED steps
    /\ UNCHANGED <<cur, n, messages, media, tg_file, media_type, hist, fin, fout>>

\* lines 164-171
StageMedia ==
    /\ pc = "stage_media"
    /\ pending' = StagedWithMedia(pending, MediaRow(cur.msg))
    /\ pc' = "commit"
    /\ steps' = Append(steps, "stage_media")
    /\ UNCHANGED <<cur, n, messages, media, disk, tg_file, media_type, fname,
                   failedAt, hist, calls, fin, fout>>

\* line 173
Commit ==
    /\ pc = "commit"
    /\ \E ok \in BOOLEAN :
        IF ok
        THEN /\ messages' = CommitTable(messages, "messages")
             /\ media' = CommitTable(media, "media")
             /\ pending' = <<>>
             /\ pc' = "close"
             /\ steps' = Append(steps, "commit")
             /\ UNCHANGED failedAt
        ELSE /\ Raise("commit")
             /\ UNCHANGED <<messages, media, steps>>
    /\ UNCHANGED <<cur, n, disk, tg_file, media_type, fname, hist, calls,
                   fin, fout>>

\* line 115: the with block is left normally and the session is closed
CloseSession ==
    /\ pc = "close"
    /\ \E ok \in BOOLEAN :
        IF ok
        THEN /\ pending' = SessionExit(pending)
             /\ Return("committed")
        ELSE /\ Raise("close")
             /\ UNCHANGED <<cur, tg_file, media_type, fname, hist, steps, calls>>
    /\ UNCHANGED <<n, messages, media, disk, fin, fout>>

\* lines 175-176: log the exception; the handler returns normally.  An
\* exception the clause does not catch leaves the handler ("raised").
HandleException ==
    /\ pc = "except"
    /\ IF Caught(failedAt)
       THEN Return(IF failedAt = "close" THEN "committed" ELSE "aborted")
       ELSE /\ pc' = "raised"
            /\ UNCHANGED <<cur, tg_file, media_type, fname, failedAt, hist,
                           steps, calls>>
    /\ UNCHANGED <<n, pending, messages, media, disk, fin, fout>>

NoCall == [chat_id |-> 0, message_id |-> 0, file |-> NoFile, explicit_ext |-> None]

Init ==
    /\ pc = "idle"
    /\ cur = NoUpdate
    /\ n = 0
    /\ pending = <<>>
    /\ messages = {}
    /\ media = {}
    /\ disk = {}
    /\ tg_file = NoFile
    /\ media_type = "none"
    /\ fname = <<>>
    /\ failedAt = "none"
    /\ hist = <<>>
    /\ steps = <<>>
    /\ calls = NoCalls
    /\ fin = NoCall
    /\ fout = None

Next ==
    \/ DropCommand
    \/ Deliver
    \/ ReturnNoMessage
    \/ ExtractMetadata
    \/ StageMessage
    \/ SkipNoAttachment
    \/ ResolveFile
    \/ Download
    \/ StageMedia
    \/ Commit
    \/ CloseSession
    \/ HandleException

Spec == Init /\ [][Next]_vars

(***************************************************************************)
(* Direct calls of file_basename: the arguments are drawn at the start,    *)
(* the one action applies the function.                                    *)
(***************************************************************************)
Alphabet == {"a", "B", "."}

Strs == UNION {[1..k -> Alphabet] : k \in 0..MaxLen}

OptStrs == {None} \cup {Some(str) : str \in Strs}

FnInputs ==
    [chat_id : {0 - 7, 7}, message_id : {1, 12},
     file : {File(t, path) : t \in {TokA, TokB}, path \in OptStrs},
     explicit_ext : OptStrs]

FnInit ==
    /\ pc = "idle"
    /\ cur = NoUpdate
    /\ n = 0
    /\ pending = <<>>
    /\ messages = {}
    /\ media = {}
    /\ disk = {}
    /\ tg_file = NoFile
    /\ media_type = "none"
    /\ fname = <<>>
    /\ failedAt = "none"
    /\ hist = <<>>
    /\ steps = <<>>
    /\ calls = NoCalls
    /\ fin \in FnInputs
    /\ fout = None

FnApply ==
    /\ ~fout.present
    /\ fout' = Some(file_basename(fin.chat_id, fin.message_id, fin.file,
                                  fin.explicit_ext))
    /\ UNCHANGED <<handlerVars, fin>>

FnNext == FnApply

FnSpec == FnInit /\ [][FnNext]_vars

(***************************************************************************)
(* Claims about file_basename, checked under FnSpec.                       *)
(***************************************************************************)
\* the part of str after its last "." (str contains one)
AfterLastDot(str) ==
    LET k == CHOOSE i \in 1..Len(str) :
                /\ str[i] = "."
                /\ \A j \in (i + 1)..Len(str) : str[j] # "."
    IN  SubSeq(str, k + 1, Len(str))

\* str without its leading "." characters
WithoutLeadingDots(str) ==
    LET k == CHOOSE i \in 0..Len(str) :
                /\ \A j \in 1..i : str[j] = "."
                /\ (i = Len(str) \/ str[i + 1] # ".")
    IN  SubSeq(str, k + 1, Len(str))

\* str without its leading and its trailing "." characters
WithoutOuterDots(str) ==
    LET lead == WithoutLeadingDots(str)
        m == CHOOSE i \in 0..Len(lead) :
                /\ \A j \in (i + 1)..Len(lead) : lead[j] = "."
                /\ (i = 0 \/ lead[i] # ".")
    IN  SubSeq(lead, 1, m)

Stem(call) ==
    IntStr(call.chat_id) \o <<"_">> \o IntStr(call.message_id) \o <<"_">>
        \o call.file.file_unique_id

WithExt(call, ext) == IF ext = <<>> THEN Stem(call) ELSE Stem(call) \o <<".">> \o ext

\* the extension as C5 states it: the remote path wins whenever it holds a
\* ".", and only the leading dots of the fallback are stripped
ClaimedExt(call) ==
    IF call.file.file_path.present /\ HasDot(call.file.file_path.s)
    THEN Lower(AfterLastDot(call.file.file_path.s))
    ELSE IF call.explicit_ext.present
    THEN Lower(WithoutLeadingDots(call.explicit_ext.s))
    ELSE <<>>

\* the extension as the code resolves it: a remote path whose part after the
\* last "." is empty resolves nothing, and the fallback loses the dots of
\* both ends
AmendedExt(call) ==
    IF /\ call.file.file_path.present
       /\ HasDot(call.file.file_path.s)
       /\ AfterLastDot(call.file.file_path.s) # <<>>
    THEN Lower(AfterLastDot(call.file.file_path.s))
    ELSE IF call.explicit_ext.present
    THEN Lower(WithoutOuterDots(call.explicit_ext.s))
    ELSE <<>>

\* C5 as stated: the name is the stem plus "." and the extension resolved by
\* (1) the remote path when it contains ".", (2) else the fallback without
\* its leading ".", (3) else nothing.  Fails on the code.
C5_NameAsClaimed == fout.present => fout.s = WithExt(fin, ClaimedExt(fin))

\* C5 amended: the name is the stem plus "." and the extension resolved by
\* (1) the lowercased part after the last "." of the remote path when that
\* part is not empty, (2) else the lowercased fallback without its leading
\* and trailing ".", (3) else nothing; an empty extension adds no suffix.
C5_NameAsResolved == fout.present => fout.s = WithExt(fin, AmendedExt(fin))

\* a call where the remote path has a dotted suffix, a different fallback is
\* given, and the name ends with the suffix of the remote path
C5_Witness ==
    /\ fout.present
    /\ fin.file.file_path = Some(<<"a", ".", "B">>)
    /\ fin.explicit_ext = Some(<<".", "a">>)
    /\ fout.s = Stem(fin) \o <<".", "b">>

(***************************************************************************)
(* Claims about backup_message, checked under Spec.  Update i is the i-th  *)
(* update taken from the platform; the rows it stages carry ev = i.        *)
(***************************************************************************)
MessagesOf(i) == {r \in messages : r.ev = i}

MediaOf(i) == {r \in media : r.ev = i}

\* update i reached the handler with an effective message
Qualifies(i) == hist[i].result \in {"committed", "aborted"}

IsPrefix(a, b) == Len(a) <= Len(b) /\ a = SubSeq(b, 1, Len(a))

\* the first attachment field present, in the order of Kinds
FirstPresent(att) ==
    Kinds[CHOOSE i \in 1..Len(Kinds) :
            /\ att[Kinds[i]] # <<>>
            /\ \A j \in 1..(i - 1) : att[Kinds[j]] = <<>>]

\* C1: when get_file or download_to_drive fails for an update, the store
\* holds neither a Message row nor a Media row of that update, and the
\* staged Message row is rolled back.
C1_TransferFailureStoresNothing ==
    /\ \A i \in 1..Len(hist) :
          hist[i].failedAt \in {"get_file", "download"}
              => MessagesOf(i) = {} /\ MediaOf(i) = {}
    /\ (pc = "except" /\ failedAt \in {"get_file", "download"})
          => MessagesOf(n) = {} /\ MediaOf(n) = {} /\ pending = <<>>

\* the transfer failed for an update carrying both text and a photo, after
\* its Message row had been staged
C1_Witness ==
    /\ pc = "except"
    /\ failedAt = "download"
    /\ Truthy(cur.msg.text)
    /\ cur.att.photo # <<>>
    /\ steps = <<"stage", "get_file">>

\* C2: no failure of any step leaves the handler: every run ends with a
\* normal return, and after it the next update can be delivered.
C2_NoFailureEscapes ==
    /\ pc # "raised"
    /\ Len(hist) = IF pc = "idle" THEN n ELSE n - 1
    /\ (pc = "idle" /\ n < MaxEvents) => ENABLED Deliver

\* an update failed, and the update after it was handled and committed
C2_Witness ==
    /\ Len(hist) = 2
    /\ hist[1].result = "aborted"
    /\ hist[2].result = "committed"
    /\ MessagesOf(2) # {}

\* C3 as stated: after n qualifying updates the store holds exactly n
\* Message rows.  Fails on the code: an aborted update leaves none.
C3_ExactlyOneRowPerEvent ==
    pc = "idle" =>
        Cardinality(messages) = Cardinality({i \in 1..Len(hist) : Qualifies(i)})

C3_RowsPerEvent ==
    \A i \in 1..Len(hist) :
        Cardinality(MessagesOf(i)) = IF hist[i].result = "committed" THEN 1 ELSE 0

\* C3 amended: the store holds exactly one Message row for each update whose
\* run committed and none for any other update (at most one per qualifying
\* update), and no Message row is ever updated or deleted.
C3_AtMostOneRowPerEvent ==
    /\ []C3_RowsPerEvent
    /\ [][messages \subseteq messages']_vars

\* one update aborted and one committed: one Message row in all
C3_Witness ==
    /\ pc = "idle"
    /\ \E i, j \in 1..Len(hist) :
          hist[i].result = "aborted" /\ hist[j].result = "committed"
    /\ Cardinality(messages) = 1

\* C4: at most one attachment is selected per update, the first present in
\* the order photo, video, document, voice, audio, animation, sticker (for
\* photo the last size): one get_file, one download and one Media row of
\* that kind when the run commits; none of them without an attachment.
C4_FirstKindOnly ==
    /\ calls.get_file <= 1 /\ calls.download <= 1
    /\ \A i \in 1..n : Cardinality(MediaOf(i)) <= 1
    /\ tg_file.present =>
          /\ media_type = FirstPresent(cur.att)
          /\ tg_file.file_unique_id =
                IF cur.att.photo # <<>>
                THEN cur.att.photo[Len(cur.att.photo)]
                ELSE cur.att[FirstPresent(cur.att)][1]
    /\ pc = "close" =>
          IF HasAttachment(cur)
          THEN /\ calls = [get_file |-> 1, download |-> 1]
               /\ Cardinality(MediaOf(n)) = 1
               /\ \A r \in MediaOf(n) : r.media_type = FirstPresent(cur.att)
          ELSE /\ calls = NoCalls
               /\ MediaOf(n) = {}

\* an update carrying a photo and a document was committed as a photo
C4_Witness ==
    /\ pc = "close"
    /\ cur.att.photo # <<>>
    /\ cur.att.document # <<>>
    /\ \E r \in MediaOf(n) : r.media_type = "photo"

\* C6: two files whose unique tokens differ never get the same name: no
\* download writes the path of a file written for another token.
C6_TokensKeepNamesApart ==
    \A a, b \in disk : a.token # b.token => a.path # b.path

\* the files of message 1 with token "2A" and of message 12 with token "A" of
\* chat 7 were both written, under names that differ only by the separator
C6_Witness ==
    \E a, b \in disk :
        /\ a.token = Tok2A /\ b.token = TokA
        /\ a.path = <<"d", "/", "7", "_", "1", "_", "2", "A">>
        /\ b.path = <<"d", "/", "7", "_", "1", "2", "_", "A">>

C8_DurableTogether ==
    \A i \in 1..n :
        LET attach == IF i <= Len(hist) THEN hist[i].attach ELSE HasAttachment(cur)
            m == Cardinality(MessagesOf(i))
            d == Cardinality(MediaOf(i))
        IN  /\ <<m, d>> \in {<<0, 0>>, <<1, 0>>, <<1, 1>>}
            /\ attach => m = d
            /\ ~attach => d = 0

\* an update with an attachment finished with both of its rows durable
C8_Witness ==
    \E i \in 1..Len(hist) :
        /\ hist[i].attach
        /\ Cardinality(MessagesOf(i)) = 1
        /\ Cardinality(MediaOf(i)) = 1

C9_SessionPerEvent ==
    /\ \A i \in 1..Len(pending) : pending[i].ev = n
    /\ pc \in {"idle", "validate", "stage", "except", "raised"} => pending = <<>>
    /\ \A i \in 1..Len(hist) :
          hist[i].result # "committed" => MessagesOf(i) = {} /\ MediaOf(i) = {}

C9_CommitOwnRowsOnly ==
    /\ \A r \in messages' \ messages : r.ev = n /\ pc = "commit"
    /\ \A r \in media' \ media : r.ev = n /\ pc = "commit"

\* C9: the unit of work covers one update: the rows staged belong to the
\* update being handled, nothing stays staged once a run has ended or
\* aborted, an aborted update never has durable rows, and a commit makes
\* durable only rows of the update being handled.
C9_UnitOfWorkPerEvent ==
    /\ []C9_SessionPerEvent
    /\ [][C9_CommitOwnRowsOnly]_vars

\* an update aborted at commit with its rows staged, and the next update
\* committed its own rows only
C9_Witness ==
    /\ Len(hist) = 2
    /\ hist[1].failedAt = "commit"
    /\ hist[2].result = "committed"
    /\ MessagesOf(1) = {}
    /\ Cardinality(messages) = 1

\* C10: a run performs its steps in the order stage Message, get_file,
\* download, stage Media, commit; a Media row is staged only after the
\* download, so the file of every staged or durable Media row is on disk,
\* and the row names the file file_basename computes for the update.
C10_DownloadBeforeMediaRow ==
    /\ \/ IsPrefix(steps, <<"stage", "get_file", "download", "stage_media", "commit">>)
       \/ IsPrefix(steps, <<"stage", "commit">>)
    /\ \A r \in media : \E f \in disk : f.path = r.file_path
    /\ \A i \in 1..Len(pending) :
          pending[i].tbl = "media" =>
              /\ \E f \in disk : f.path = pending[i].file_path
              /\ steps = <<"stage", "get_file", "download", "stage_media">>
    /\ pc = "close" =>
          \A r \in MediaOf(n) :
              /\ r.file_name = file_basename(cur.msg.chat_id, cur.msg.message_id,
                                             tg_file, None)
              /\ r.file_path = MEDIA_BACKUP_DIR \o <<"/">> \o r.file_name
              /\ r.chat_id = cur.msg.chat_id
              /\ r.message_id = cur.msg.message_id

\* a run went through the five steps and its Media row is durable
C10_Witness ==
    /\ pc = "close"
    /\ steps = <<"stage", "get_file", "download", "stage_media", "commit">>
    /\ MediaOf(n) # {}
    /\ tg_file.file_path.present

====
